---- MODULE Spec2Model ----
(***************************************************************************)
(* Model of the resource-lifetime tracker of the game: the Slot            *)
(* (lt_slot.c), the Lifetime container that owns an ordered sequence of    *)
(* Slots (system/lt.h: create_lt, PUSH_LT, RESET_LT, RELEASE_LT,           *)
(* RETURN_LT), and game.c, which drives the container; and of the level    *)
(* editor's proto rect (proto_rect.c), the rectangle dragged with the      *)
(* mouse that becomes a box.                                               *)
(*                                                                         *)
(* Resource handles are opaque identities: every constructor call that     *)
(* succeeds yields a handle never seen before (nextRes); NULL is the       *)
(* failure sentinel.  Release functions are identified by name.            *)
(***************************************************************************)
EXTENDS Integers, Sequences, FiniteSets, TLC

NULL == 0

\* Bounds of the model.
MaxRes == 4
MaxOps == 4
MaxLevels == 2
MaxX == 5
MaxY == 2

\* The release functions callers hand to the tracker.
Destroyers == {"releaseA", "releaseB"}
NoFn == "none"

VARIABLES
    frames,     \* the Lifetime's ordered sequence of Slots
    ltState,    \* "none" | "live" | "destroyed" | "aborted"
    log,        \* every release / constructor / store call made so far, in order
    nextRes,    \* the handle the next successful constructor call yields
    hist,       \* the operations the caller performed, in order
    ret,        \* what the last operation returned
    state,      \* game->state
    level,      \* game->level
    call,       \* the game.c function called last, with its inputs
    proto_rect, \* the ProtoRect: active, begin, end
    event,      \* the proto_rect.c function called last, with its event
    out         \* the calls that function made

gameVars == <<state, level, call>>

editorVars == <<proto_rect, event, out>>

vars ==
    <<frames, ltState, log, nextRes, hist, ret, state, level, call,
      proto_rect, event, out>>

----------------------------------------------------------------------------
\* Observable calls.

Release(fn, r) == [ev |-> "release", fn |-> fn, res |-> r]
Construct(r) == [ev |-> "construct", fn |-> NoFn, res |-> r]
Store(r) == [ev |-> "store", fn |-> NoFn, res |-> r]

----------------------------------------------------------------------------
\* Slot: one (resource, resource_destroy) pair.

\* The NULL slot pointer.
NoSlot == [resource |-> NULL, resource_destroy |-> NoFn]

\* create_lt_slot without the check of malloc's result.
create_lt_slot_nocheck(resource, resource_destroy, mallocOk) ==
    [resource |-> resource, resource_destroy |-> resource_destroy]

\* create_lt_slot that never sets resource_destroy.
create_lt_slot_nofn(resource, resource_destroy, mallocOk) ==
    IF mallocOk
    THEN [resource |-> resource, resource_destroy |-> NoFn]
    ELSE NoSlot

\* malloc may fail; otherwise the slot holds exactly what it was given.
create_lt_slot(resource, resource_destroy, mallocOk) ==
    IF mallocOk
    THEN [resource |-> resource, resource_destroy |-> resource_destroy]
    ELSE NoSlot

\* destroy_lt_slot that frees the slot and forgets the resource.
destroy_lt_slot_leak(lt_slot) == <<>>

\* destroy_lt_slot that calls the release function twice.
destroy_lt_slot_twice(lt_slot) ==
    <<Release(lt_slot.resource_destroy, lt_slot.resource),
      Release(lt_slot.resource_destroy, lt_slot.resource)>>

\* Calls the slot's release function on the slot's resource; the slot is freed.
destroy_lt_slot(lt_slot) ==
    <<Release(lt_slot.resource_destroy, lt_slot.resource)>>

\* lt_slot_reset_resource with its two statements swapped: it stores the new
\* resource and then releases what the slot holds.
lt_slot_reset_resource_new(lt_slot, resource) ==
    [slot |-> [lt_slot EXCEPT !.resource = resource],
     events |-> <<Store(resource), Release(lt_slot.resource_destroy, resource)>>]

\* lt_slot_reset_resource that also clears the slot's release function.
lt_slot_reset_resource_clear(lt_slot, resource) ==
    [slot |-> [resource |-> resource, resource_destroy |-> NoFn],
     events |-> <<Release(lt_slot.resource_destroy, lt_slot.resource),
                  Store(resource)>>]

\* Releases the old resource, then stores the new one; resource_destroy stays.
lt_slot_reset_resource(lt_slot, resource) ==
    [slot |-> [lt_slot EXCEPT !.resource = resource],
     events |-> <<Release(lt_slot.resource_destroy, lt_slot.resource),
                  Store(resource)>>]

\* lt_slot_contains_resource comparing the wrong pointer: never equal.
lt_slot_contains_resource_never(lt_slot, resource) == FALSE

\* lt_slot_contains_resource testing only that the slot holds something.
lt_slot_contains_resource_any(lt_slot, resource) == lt_slot.resource # NULL

\* Pointer identity with the stored handle.
lt_slot_contains_resource(lt_slot, resource) ==
    lt_slot.resource = resource

----------------------------------------------------------------------------
\* Lifetime: the container.

RemoveAt(s, i) == [j \in 1..(Len(s) - 1) |-> IF j < i THEN s[j] ELSE s[j + 1]]

\* Linear scan, oldest slot first; 0 when no slot owns the resource.
FindSlot(fr, resource) ==
    IF \E i \in 1..Len(fr) : lt_slot_contains_resource(fr[i], resource)
    THEN CHOOSE i \in 1..Len(fr) :
            /\ lt_slot_contains_resource(fr[i], resource)
            /\ \A j \in 1..(i - 1) : ~lt_slot_contains_resource(fr[j], resource)
    ELSE 0

\* track: a failed constructor (NULL) is passed through with nothing
\* registered; a failed registration releases the resource at once.
lt_push(fr, resource, resource_destroy, mallocOk) ==
    IF resource = NULL
    THEN [frames |-> fr, events |-> <<>>, ret |-> NULL]
    ELSE LET s == create_lt_slot(resource, resource_destroy, mallocOk) IN
         IF s = NoSlot
         THEN [frames |-> fr,
               events |-> <<Release(resource_destroy, resource)>>,
               ret |-> NULL]
         ELSE [frames |-> Append(fr, s), events |-> <<>>, ret |-> resource]

\* reset: locate the owning slot; obtain the new resource from the constructor
\* (newRes is its result); release the old resource and store the new one in
\* the same slot.  The slot keeps its release function only through
\* lt_slot_reset_resource, which takes the new resource as its argument and
\* releases the old one itself: the constructor has returned before the old
\* resource is released.
\* What becomes of the slot when the constructor fails is not defined: it is
\* either destroyed and removed, or left without a resource (policy).  A
\* released handle never stays in a slot: the slot's release function is
\* called only by destroy_lt_slot, which frees the slot, and by
\* lt_slot_reset_resource, which overwrites the handle.
lt_reset(fr, resource, newRes, policy) ==
    LET i == FindSlot(fr, resource) IN
    IF i = 0
    THEN [frames |-> fr, events |-> <<>>, ret |-> NULL]
    ELSE IF newRes # NULL
    THEN LET r == lt_slot_reset_resource(fr[i], newRes) IN
         [frames |-> [fr EXCEPT ![i] = r.slot],
          events |-> <<Construct(newRes)>> \o r.events,
          ret |-> newRes]
    ELSE [frames |-> IF policy = "removed"
                     THEN RemoveAt(fr, i)
                     ELSE [fr EXCEPT ![i].resource = NULL],
          events |-> <<Construct(NULL)>> \o destroy_lt_slot(fr[i]),
          ret |-> NULL]

\* release_one: destroy the slot owning the resource and take it out.
lt_release(fr, resource) ==
    LET i == FindSlot(fr, resource) IN
    IF i = 0
    THEN [frames |-> fr, events |-> <<>>, ret |-> NULL]
    ELSE [frames |-> RemoveAt(fr, i), events |-> destroy_lt_slot(fr[i]),
          ret |-> NULL]

RECURSIVE DestroyFrom(_, _)
DestroyFrom(fr, n) ==
    IF n = 0 THEN <<>> ELSE destroy_lt_slot(fr[n]) \o DestroyFrom(fr, n - 1)

\* destroy: every remaining slot, newest first.
destroy_lt(fr) ==
    [frames |-> <<>>, events |-> DestroyFrom(fr, Len(fr)), ret |-> NULL]

----------------------------------------------------------------------------
\* The caller's operations on one Lifetime.

\* One entry of the caller's history: the operation, the resource it was given,
\* the release function (track), the handle the constructor produced (reset),
\* what becomes of the slot when the constructor fails (reset), and whether the
\* environment let the operation take its normal path: the bookkeeping
\* allocation succeeded (track), a slot owned the resource (reset, release_one).
Op(op, res, fn, new, pol, ok) ==
    [op |-> op, res |-> res, fn |-> fn, new |-> new, pol |-> pol, ok |-> ok]

Apply(r, e, used) ==
    /\ frames' = r.frames
    /\ log' = log \o r.events
    /\ ret' = r.ret
    /\ hist' = Append(hist, e)
    /\ nextRes' = nextRes + used
    /\ UNCHANGED <<gameVars, editorVars>>

\* The guard of every operation with the test that the Lifetime still exists
\* left out.
Live_unguarded == ltState \in {"live", "destroyed"} /\ Len(hist) < MaxOps

Live == ltState = "live" /\ Len(hist) < MaxOps

\* lt_slot_contains_resource asserts its resource argument: a scan of a
\* non-empty Lifetime for NULL aborts the program.
ScanAsserts(fr, resource) == Len(fr) > 0 /\ resource = NULL

\* No game: the Lifetime, or the Slot, is driven directly.
NoCall == [fn |-> "none"]

NoGame == state = "NONE" /\ level = NULL /\ call = NoCall

\* A point of the world.  The coordinates are floats in the code; the model
\* takes whole numbers, on which the float product and comparison are exact.
Vec(x, y) == [x |-> x, y |-> y]

\* What proto_rect_event reads of an SDL_Event; point is what
\* camera_map_screen makes of the event's screen coordinates.
Event(type, button, point) == [type |-> type, button |-> button, point |-> point]

NoEvent == Event("none", "none", Vec(0, 0))

\* A proto rect that is not being dragged, and no call made on it.
NoEditor ==
    /\ proto_rect = [active |-> FALSE, begin |-> Vec(0, 0), end |-> Vec(0, 0)]
    /\ event = NoEvent
    /\ out = <<>>

Init ==
    /\ frames = <<>>
    /\ ltState = "live"
    /\ log = <<>>
    /\ nextRes = 1
    /\ hist = <<>>
    /\ ret = NULL
    /\ NoGame
    /\ NoEditor

\* track(lifetime, resource, release) with a freshly constructed resource.
Track ==
    /\ Live
    /\ nextRes <= MaxRes
    /\ \E fn \in Destroyers, mallocOk \in BOOLEAN :
          LET r == lt_push(frames, nextRes, fn, mallocOk) IN
          Apply(r, Op("track", nextRes, fn, NULL, NoFn, mallocOk), 1)
    /\ UNCHANGED ltState

\* track of the failure sentinel: the caller's constructor failed.
TrackNull ==
    /\ Live
    /\ \E fn \in Destroyers :
          LET r == lt_push(frames, NULL, fn, TRUE) IN
          Apply(r, Op("track", NULL, fn, NULL, NoFn, FALSE), 0)
    /\ UNCHANGED ltState

\* reset(lifetime, resource, constructor).  The constructor is invoked only
\* when a slot owns the resource.
Reset ==
    /\ Live
    /\ nextRes <= MaxRes
    /\ \E resource \in 1..(nextRes - 1), ctorOk \in BOOLEAN,
          policy \in {"removed", "empty"} :
          LET found == FindSlot(frames, resource) # 0
              new == IF found /\ ctorOk THEN nextRes ELSE NULL
              r == lt_reset(frames, resource, new, policy)
          IN  /\ (ctorOk \/ ~found) => policy = "removed"
              /\ (~found) => ctorOk
              /\ Apply(r, Op("reset", resource, NoFn, new,
                             IF found /\ ~ctorOk THEN policy ELSE NoFn, found),
                       IF new # NULL THEN 1 ELSE 0)
    /\ UNCHANGED ltState

\* release_one(lifetime, resource).
ReleaseOne ==
    /\ Live
    /\ \E resource \in 1..(nextRes - 1) :
          LET r == lt_release(frames, resource) IN
          Apply(r, Op("release_one", resource, NoFn, NULL, NoFn,
                      FindSlot(frames, resource) # 0), 0)
    /\ UNCHANGED ltState

\* reset or release_one of NULL on a Lifetime that holds a slot: the scan's
\* first lt_slot_contains_resource call fails its assertion.
ScanNull ==
    /\ Live
    /\ ScanAsserts(frames, NULL)
    /\ \E o \in {"reset", "release_one"} :
          hist' = Append(hist, Op(o, NULL, NoFn, NULL, NoFn, FALSE))
    /\ ltState' = "aborted"
    /\ UNCHANGED <<frames, log, nextRes, ret>>
    /\ UNCHANGED <<gameVars, editorVars>>

\* destroy(lifetime).
Destroy ==
    /\ ltState = "live"
    /\ LET r == destroy_lt(frames) IN
          Apply(r, Op("destroy", NULL, NoFn, NULL, NoFn, TRUE), 0)
    /\ ltState' = "destroyed"

\* Any operation on a Lifetime that was destroyed: a precondition violation,
\* which is fatal.  The operation is not carried out; the history records which
\* one was attempted (in the pol field).
AfterDestroy ==
    /\ ltState = "destroyed"
    /\ Len(hist) <= MaxOps
    /\ \E o \in {"track", "reset", "release_one", "destroy"} :
          hist' = Append(hist, Op("after_destroy", NULL, NoFn, NULL, o, FALSE))
    /\ ltState' = "aborted"
    /\ UNCHANGED <<frames, log, nextRes, ret>>
    /\ UNCHANGED <<gameVars, editorVars>>

Next ==
    Track \/ TrackNull \/ Reset \/ ReleaseOne \/ ScanNull \/ Destroy \/ AfterDestroy

Spec == Init /\ [][Next]_vars

----------------------------------------------------------------------------
\* One Slot driven through its own interface: create, replace, owns, destroy.

SlotInit ==
    /\ frames = <<>>
    /\ ltState = "noslot"
    /\ log = <<>>
    /\ nextRes = 1
    /\ hist = <<>>
    /\ ret = NULL
    /\ NoGame
    /\ NoEditor

HasSlot == ltState = "slot" /\ Len(hist) < MaxOps

\* create_lt_slot(resource, resource_destroy); NULL when malloc fails.
SlotCreate ==
    /\ ltState = "noslot"
    /\ Len(hist) < MaxOps
    /\ nextRes <= MaxRes
    /\ \E fn \in Destroyers, mallocOk \in BOOLEAN :
          LET s == create_lt_slot(nextRes, fn, mallocOk) IN
          /\ frames' = IF s = NoSlot THEN <<>> ELSE <<s>>
          /\ ltState' = IF s = NoSlot THEN "noslot" ELSE "slot"
          /\ ret' = IF s = NoSlot THEN NULL ELSE nextRes
          /\ hist' = Append(hist, Op("create", nextRes, fn, NULL, NoFn, mallocOk))
    /\ nextRes' = nextRes + 1
    /\ UNCHANGED log
    /\ UNCHANGED <<gameVars, editorVars>>

\* lt_slot_reset_resource(slot, resource) with a freshly constructed resource.
SlotReplace ==
    /\ HasSlot
    /\ nextRes <= MaxRes
    /\ LET r == lt_slot_reset_resource(frames[1], nextRes) IN
          /\ frames' = <<r.slot>>
          /\ log' = log \o r.events
    /\ hist' = Append(hist, Op("replace", NULL, NoFn, nextRes, NoFn, TRUE))
    /\ nextRes' = nextRes + 1
    /\ UNCHANGED <<ltState, ret>>
    /\ UNCHANGED <<gameVars, editorVars>>

\* lt_slot_contains_resource(slot, candidate); the int it returns is in ret.
SlotOwns ==
    /\ HasSlot
    /\ \E candidate \in 1..MaxRes :
          /\ ret' = IF lt_slot_contains_resource(frames[1], candidate) THEN 1 ELSE 0
          /\ hist' = Append(hist, Op("owns", candidate, NoFn, NULL, NoFn, TRUE))
    /\ UNCHANGED <<frames, ltState, log, nextRes>>
    /\ UNCHANGED <<gameVars, editorVars>>

\* A NULL resource handed to replace or owns fails the function's assertion.
SlotAssert ==
    /\ HasSlot
    /\ \E o \in {"replace", "owns"} :
          hist' = Append(hist, Op(o, NULL, NoFn, NULL, NoFn, FALSE))
    /\ ltState' = "aborted"
    /\ UNCHANGED <<frames, log, nextRes, ret>>
    /\ UNCHANGED <<gameVars, editorVars>>

\* destroy_lt_slot(slot).
SlotDestroy ==
    /\ ltState = "slot"
    /\ log' = log \o destroy_lt_slot(frames[1])
    /\ frames' = <<>>
    /\ ltState' = "noslot"
    /\ hist' = Append(hist, Op("destroy_slot", NULL, NoFn, NULL, NoFn, TRUE))
    /\ UNCHANGED <<nextRes, ret>>
    /\ UNCHANGED <<gameVars, editorVars>>

SlotNext == SlotCreate \/ SlotReplace \/ SlotOwns \/ SlotAssert \/ SlotDestroy

SlotSpec == SlotInit /\ [][SlotNext]_vars

----------------------------------------------------------------------------
\* game.c: the Game owns one Lifetime; its level is tracked in it and replaced
\* in place on every reload.

\* The acquisitions of create_game in order, each with its release function.
GameParts ==
    <<"free", "destroy_broadcast", "destroy_sprite_font", "destroy_level_picker",
      "destroy_sound_samples", "destroy_camera", "destroy_console",
      "SDL_DestroyTexture">>

Call(fn, type, sym, step, path, ctor, alloc, pol, sub) ==
    [fn |-> fn, type |-> type, sym |-> sym, step |-> step, path |-> path,
     ctor |-> ctor, alloc |-> alloc, pol |-> pol, sub |-> sub]

\* create_game from acquisition k on.  The build fails at acquisition failAt
\* (0: nowhere), either in the constructor ("ctor") or in the registration
\* ("reg"); every failure but the last acquisition's ends in RETURN_LT(lt, NULL).
RECURSIVE create_game(_, _, _, _, _, _)
create_game(k, fr, events, first, failAt, kind) ==
    IF k > Len(GameParts)
    THEN [game |-> TRUE, frames |-> fr, events |-> events]
    ELSE LET r == lt_push(fr,
                          IF k = failAt /\ kind = "ctor" THEN NULL ELSE first + k - 1,
                          GameParts[k],
                          ~(k = failAt /\ kind = "reg"))
         IN  IF r.ret = NULL /\ k < Len(GameParts)
             THEN [game |-> FALSE, frames |-> <<>>,
                   events |-> events \o r.events \o destroy_lt(r.frames).events]
             ELSE create_game(k + 1, r.frames, events \o r.events, first, failAt, kind)

\* game_update without the check of the level it got.
level_loaded_unchecked(newLevel) == [state |-> "RUNNING", rc |-> 0]

\* The end of game_update's level-picker branch: a NULL level is a failure,
\* any other starts the level.
level_loaded(newLevel) ==
    IF newLevel = NULL
    THEN [state |-> state, rc |-> -1]
    ELSE [state |-> "RUNNING", rc |-> 0]

\* The reload on 'r' reporting a NULL level without leaving the RUNNING state.
level_reloaded_stay(newLevel, sub) ==
    [state |-> state, rc |-> IF newLevel = NULL THEN -1 ELSE sub]

\* The end of the reload on 'r': a NULL level quits the game.
level_reloaded(newLevel, sub) ==
    IF newLevel = NULL
    THEN [state |-> "QUIT", rc |-> -1]
    ELSE [state |-> state, rc |-> sub]

Same(st, rc) ==
    [state |-> st, level |-> level, frames |-> frames, events |-> <<>>, rc |-> rc]

\* The handle a constructor call yields.
Made(ctorOk) == IF ctorOk THEN nextRes ELSE NULL

\* game_update.  in.sub: what the level's, the console's or the picker's own
\* functions return; in.sel: the picker has a selected level.
game_update(in) ==
    IF state \in {"RUNNING", "CONSOLE"} THEN Same(state, in.sub)
    ELSE IF state = "LEVEL_PICKER"
    THEN IF in.sub < 0 THEN Same(state, -1)
         ELSE IF ~in.sel THEN Same(state, 0)
         ELSE LET r == IF level = NULL
                       THEN lt_push(frames, Made(in.ctor), "destroy_level", in.alloc)
                       ELSE lt_reset(frames, level, Made(in.ctor), in.pol)
                  e == level_loaded(r.ret)
              IN  [state |-> e.state, level |-> r.ret, frames |-> r.frames,
                   events |-> r.events, rc |-> e.rc]
    ELSE Same(state, 0)

game_event_running(in) ==
    IF in.type = "SDL_QUIT" THEN Same("QUIT", in.sub)
    ELSE IF in.type = "SDL_KEYDOWN" /\ in.sym = "r"
    THEN LET r == lt_reset(frames, level, Made(in.ctor), in.pol)
             e == level_reloaded(r.ret, in.sub)
         IN  [state |-> e.state, level |-> r.ret, frames |-> r.frames,
              events |-> r.events, rc |-> e.rc]
    ELSE IF in.type = "SDL_KEYDOWN" /\ in.sym = "q"
    THEN IF in.ctor THEN Same(state, in.sub) ELSE Same("QUIT", -1)
    ELSE IF in.type = "SDL_KEYDOWN" /\ in.sym = "p" THEN Same("PAUSE", in.sub)
    ELSE IF in.type = "SDL_KEYUP" /\ in.sym \in {"BACKQUOTE", "c"} THEN Same("CONSOLE", in.sub)
    ELSE Same(state, in.sub)

\* game_event_pause that opens the console on key-up 'c', as the running game
\* does.
game_event_pause_console(in) ==
    IF in.type = "SDL_QUIT" THEN Same("QUIT", in.sub)
    ELSE IF in.type = "SDL_KEYDOWN" /\ in.sym = "p" THEN Same("RUNNING", in.sub)
    ELSE IF in.type = "SDL_KEYUP" /\ in.sym = "c" THEN Same("CONSOLE", in.sub)
    ELSE Same(state, in.sub)

game_event_pause(in) ==
    IF in.type = "SDL_QUIT" THEN Same("QUIT", in.sub)
    ELSE IF in.type = "SDL_KEYDOWN" /\ in.sym = "p" THEN Same("RUNNING", in.sub)
    ELSE Same(state, in.sub)

game_event_console(in) ==
    IF in.type = "SDL_QUIT" THEN Same("QUIT", 0)
    ELSE IF in.type = "SDL_KEYDOWN" /\ in.sym = "ESCAPE" THEN Same("RUNNING", 0)
    ELSE Same(state, in.sub)

game_event_level_picker(in) ==
    IF in.type = "SDL_QUIT" THEN Same("QUIT", 0)
    ELSE IF in.type = "SDL_MOUSEMOTION" THEN Same(state, 0)
    ELSE Same(state, in.sub)

\* game_event handing the event to the pause handler in the QUIT state too.
game_event_fallthrough(in) ==
    IF state = "RUNNING" THEN game_event_running(in)
    ELSE IF state = "CONSOLE" THEN game_event_console(in)
    ELSE IF state = "LEVEL_PICKER" THEN game_event_level_picker(in)
    ELSE game_event_pause(in)

game_event(in) ==
    IF state = "RUNNING" THEN game_event_running(in)
    ELSE IF state = "PAUSE" THEN game_event_pause(in)
    ELSE IF state = "CONSOLE" THEN game_event_console(in)
    ELSE IF state = "LEVEL_PICKER" THEN game_event_level_picker(in)
    ELSE Same(state, 0)

game_input(in) ==
    IF state \in {"RUNNING", "LEVEL_PICKER"} THEN Same(state, in.sub) ELSE Same(state, 0)

\* in.type is the target of the message; "" is a path match_list rejects.
game_send(in) ==
    IF in.type = "menu" THEN Same("LEVEL_PICKER", 0)
    ELSE IF in.type = "level" THEN Same(state, in.sub)
    ELSE Same(state, -1)

EventTypes == {"SDL_QUIT", "SDL_KEYDOWN", "SDL_KEYUP", "SDL_MOUSEMOTION", "SDL_MOUSEBUTTONDOWN"}

Keys == {"r", "q", "p", "l", "c", "BACKQUOTE", "ESCAPE"}

Targets == {"level", "menu", "game", ""}

RetCodes == {0, -1}

Policies == {"removed", "empty"}

GameInit ==
    /\ frames = <<>>
    /\ ltState = "none"
    /\ log = <<>>
    /\ nextRes = 1
    /\ hist = <<>>
    /\ ret = NULL
    /\ NoGame
    /\ NoEditor

Playing == ltState = "live" /\ state # "NONE"

\* The constructor of a level runs: on a load in the picker, on a reload.
Constructs(fn, in) ==
    \/ fn = "game_update" /\ state = "LEVEL_PICKER" /\ in.sub = 0 /\ in.sel
    \/ fn = "game_event" /\ state = "RUNNING" /\ in.type = "SDL_KEYDOWN" /\ in.sym = "r"

\* Which Lifetime operation the call makes on the level.
Path(fn, in) ==
    IF ~Constructs(fn, in) THEN "none"
    ELSE IF fn = "game_update" /\ level = NULL THEN "push"
    ELSE "reset"

Handle(fn, in, r) ==
    /\ in.ctor => nextRes <= Len(GameParts) + MaxLevels
    /\ state' = r.state
    /\ level' = r.level
    /\ frames' = r.frames
    /\ log' = log \o r.events
    /\ ret' = r.rc
    /\ nextRes' = IF Constructs(fn, in) /\ in.ctor THEN nextRes + 1 ELSE nextRes
    /\ call' = Call(fn, in.type, in.sym, 0, Path(fn, in), in.ctor, in.alloc, in.pol, in.sub)
    /\ UNCHANGED <<ltState, hist>>
    /\ UNCHANGED editorVars

NoInput == [type |-> "", sym |-> "", sel |-> FALSE, ctor |-> FALSE, alloc |-> TRUE,
            pol |-> NoFn, sub |-> 0]

\* create_game: create_lt may fail; then the eight acquisitions.
GameCreate ==
    /\ ltState = "none"
    /\ call = NoCall
    /\ \E ltOk \in BOOLEAN, failAt \in 0..Len(GameParts), kind \in {"ctor", "reg"} :
          LET b == create_game(1, <<>>, <<>>, nextRes, failAt, kind) IN
          /\ (failAt = 0 \/ ~ltOk) => kind = "ctor"
          /\ ~ltOk => failAt = 0
          /\ frames' = IF ltOk THEN b.frames ELSE <<>>
          /\ log' = IF ltOk THEN log \o b.events ELSE log
          /\ ltState' = IF ~ltOk THEN "none" ELSE IF b.game THEN "live" ELSE "destroyed"
          /\ state' = IF ltOk /\ b.game THEN "LEVEL_PICKER" ELSE "NONE"
          /\ ret' = IF ltOk /\ b.game THEN nextRes ELSE NULL
          /\ call' = Call("create_game", "", "", failAt, "none", ltOk, TRUE, kind, 0)
    /\ level' = NULL
    /\ nextRes' = nextRes + Len(GameParts)
    /\ UNCHANGED hist
    /\ UNCHANGED editorVars

GameUpdate ==
    /\ Playing
    /\ \E sub \in RetCodes, sel \in BOOLEAN, ctor \in BOOLEAN, alloc \in BOOLEAN,
          pol \in Policies :
          LET in == [NoInput EXCEPT !.sub = sub, !.sel = sel, !.ctor = ctor,
                                    !.alloc = alloc, !.pol = pol]
          IN  /\ ~Constructs("game_update", in) => (~ctor /\ ~sel)
              /\ (Path("game_update", in) # "push" \/ ~ctor) => alloc
              /\ (Path("game_update", in) # "reset" \/ ctor) => pol = "removed"
              /\ Handle("game_update", in, game_update(in))

GameEvent ==
    /\ Playing
    /\ \E type \in EventTypes, sym \in Keys, sub \in RetCodes, ctor \in BOOLEAN,
          pol \in Policies :
          LET in == [NoInput EXCEPT !.type = type, !.sym = sym, !.sub = sub,
                                    !.ctor = ctor, !.pol = pol]
          IN  /\ type \notin {"SDL_KEYDOWN", "SDL_KEYUP"} => sym = "l"
              /\ (~Constructs("game_event", in) /\ ~(type = "SDL_KEYDOWN" /\ sym = "q"))
                    => ~ctor
              /\ (~Constructs("game_event", in) \/ ctor) => pol = "removed"
              /\ Handle("game_event", in, game_event(in))

GameInput ==
    /\ Playing
    /\ \E sub \in RetCodes :
          LET in == [NoInput EXCEPT !.sub = sub] IN
          Handle("game_input", in, game_input(in))

GameSend ==
    /\ Playing
    /\ \E target \in Targets, sub \in RetCodes :
          LET in == [NoInput EXCEPT !.type = target, !.sub = sub] IN
          /\ target # "level" => sub = 0
          /\ Handle("game_send", in, game_send(in))

\* destroy_game: RETURN_LT0(game->lt).
GameDestroy ==
    /\ Playing
    /\ log' = log \o destroy_lt(frames).events
    /\ frames' = <<>>
    /\ ltState' = "destroyed"
    /\ call' = Call("destroy_game", "", "", 0, "none", FALSE, TRUE, NoFn, 0)
    /\ UNCHANGED <<state, level, nextRes, hist, ret>>
    /\ UNCHANGED editorVars

GameNext ==
    GameCreate \/ GameUpdate \/ GameEvent \/ GameInput \/ GameSend \/ GameDestroy

GameSpec == GameInit /\ [][GameNext]_vars

----------------------------------------------------------------------------
\* proto_rect.c: the rectangle the level editor drags out with the mouse.

PROTO_AREA_THRESHOLD == 10

Rect(x, y, w, h) == [x |-> x, y |-> y, w |-> w, h |-> h]

\* The rect from its first corner to its second.
rect_from_points(p1, p2) == Rect(p1.x, p1.y, p2.x - p1.x, p2.y - p1.y)

\* The calls proto_rect.c makes on its collaborators.
AddBox(rect) == [call |-> "boxes_add_box", rect |-> rect]
LogInfo(rect) == [call |-> "log_info", rect |-> rect]
FillRect(rect) == [call |-> "camera_fill_rect", rect |-> rect]

\* The test of the area that lets only a larger rect through.
area_accepted_above(area) == area > PROTO_AREA_THRESHOLD

\* area >= PROTO_AREA_THRESHOLD
area_accepted(area) == area >= PROTO_AREA_THRESHOLD

Idle(pr) == [proto_rect |-> pr, calls |-> <<>>]

\* proto_rect_event: what it leaves in the ProtoRect and the calls it makes.
proto_rect_event(pr, ev) ==
    IF pr.active
    THEN IF ev.type = "SDL_MOUSEBUTTONUP"
         THEN IF ev.button = "SDL_BUTTON_LEFT"
              THEN LET real_rect == rect_from_points(pr.begin, pr.end)
                       area == real_rect.w * real_rect.h
                   IN  [proto_rect |-> [pr EXCEPT !.active = FALSE],
                        calls |-> IF area_accepted(area)
                                  THEN <<AddBox(real_rect)>>
                                  ELSE <<LogInfo(real_rect)>>]
              ELSE Idle(pr)
         ELSE IF ev.type = "SDL_MOUSEMOTION"
         THEN [proto_rect |-> [pr EXCEPT !.end = ev.point], calls |-> <<>>]
         ELSE Idle(pr)
    ELSE IF ev.type = "SDL_MOUSEBUTTONDOWN" /\ ev.button = "SDL_BUTTON_LEFT"
         THEN [proto_rect |-> [active |-> TRUE, begin |-> ev.point, end |-> ev.point],
               calls |-> <<>>]
         ELSE Idle(pr)

\* proto_rect_render that fills the rect whether the proto rect is active or
\* not.
proto_rect_render_always(pr, fillOk) ==
    [calls |-> <<FillRect(rect_from_points(pr.begin, pr.end))>>,
     rc |-> IF fillOk THEN 0 ELSE -1]

\* proto_rect_render: fills the rect while active; a failed fill is reported.
proto_rect_render(pr, fillOk) ==
    IF pr.active
    THEN [calls |-> <<FillRect(rect_from_points(pr.begin, pr.end))>>,
          rc |-> IF fillOk THEN 0 ELSE -1]
    ELSE [calls |-> <<>>, rc |-> 0]

ProtoEventTypes ==
    {"SDL_MOUSEBUTTONUP", "SDL_MOUSEBUTTONDOWN", "SDL_MOUSEMOTION", "SDL_KEYDOWN"}

Buttons == {"SDL_BUTTON_LEFT", "SDL_BUTTON_RIGHT"}

Points == {Vec(x, y) : x \in 0..MaxX, y \in 0..MaxY}

\* The ProtoRect is set up by its owner, outside proto_rect.c: any value.
ProtoInit ==
    /\ frames = <<>>
    /\ ltState = "none"
    /\ log = <<>>
    /\ nextRes = 1
    /\ hist = <<>>
    /\ ret = 0
    /\ NoGame
    /\ proto_rect \in [active : BOOLEAN, begin : Points, end : Points]
    /\ event = NoEvent
    /\ out = <<>>

ProtoFrame == UNCHANGED <<frames, ltState, log, nextRes, hist>> /\ UNCHANGED gameVars

\* proto_rect_event with any event.  An event that is not of a mouse button
\* has no button; the point varies where the function can read it: in a mouse
\* motion and in a press of the left button.
ProtoEvent ==
    /\ \E type \in ProtoEventTypes, button \in Buttons \cup {"none"}, point \in Points :
          LET ev == Event(type, button, point)
              r == proto_rect_event(proto_rect, ev)
          IN  /\ button = "none" <=> type \in {"SDL_MOUSEMOTION", "SDL_KEYDOWN"}
              /\ (\/ type \in {"SDL_KEYDOWN", "SDL_MOUSEBUTTONUP"}
                  \/ button = "SDL_BUTTON_RIGHT") => point = Vec(0, 0)
              /\ proto_rect' = r.proto_rect
              /\ out' = r.calls
              /\ event' = ev
    /\ ret' = 0
    /\ ProtoFrame

\* proto_rect_render; camera_fill_rect may fail.
ProtoRender ==
    /\ \E fillOk \in BOOLEAN :
          LET r == proto_rect_render(proto_rect, fillOk) IN
          /\ ~proto_rect.active => fillOk
          /\ out' = r.calls
          /\ ret' = r.rc
    /\ event' = Event("render", "none", Vec(0, 0))
    /\ UNCHANGED proto_rect
    /\ ProtoFrame

\* proto_rect_update does nothing.
ProtoUpdate ==
    /\ event' = Event("update", "none", Vec(0, 0))
    /\ out' = <<>>
    /\ ret' = 0
    /\ UNCHANGED proto_rect
    /\ ProtoFrame

ProtoNext == ProtoEvent \/ ProtoRender \/ ProtoUpdate

ProtoSpec == ProtoInit /\ [][ProtoNext]_vars

----------------------------------------------------------------------------
\* Reading the history and the call log.

Last(s) == s[Len(s)]

Reverse(s) == [j \in 1..Len(s) |-> s[Len(s) + 1 - j]]

\* The step just taken was operation o.
Did(o) == Len(hist') = Len(hist) + 1 /\ Last(hist').op = o

\* The calls the step just taken made.
NewCalls == SubSeq(log', Len(log) + 1, Len(log'))

IsRelease(e) == e.ev = "release"

Releases(l) == SelectSeq(l, IsRelease)

\* How often r's release was invoked so far.
RelCount(r) == Cardinality({i \in 1..Len(log) : IsRelease(log[i]) /\ log[i].res = r})

\* A track that registered its resource.
TrackOk(e) == e.op = "track" /\ e.res # NULL /\ e.ok

\* A track whose slot registration failed.
TrackFailed(e) == e.op = "track" /\ e.res # NULL /\ ~e.ok

ReleaseOf(e) == Release(e.fn, e.res)

MapRelease(s) == [j \in 1..Len(s) |-> ReleaseOf(s[j])]

Ended == Len(hist) >= 1 /\ Last(hist).op = "destroy"

\* The operations before the closing destroy.
Body == SubSeq(hist, 1, Len(hist) - 1)

----------------------------------------------------------------------------
\* C1: N >= 0 successful tracks on a fresh Lifetime followed by destroy
\* invoke the release functions in exactly the reverse of the tracking order,
\* each tracked resource once, with the release function it was tracked with.
C1_LifoTeardown ==
    (Ended /\ \A i \in 1..Len(Body) : TrackOk(Body[i]))
        => log = Reverse(MapRelease(Body))

\* track A, B, C with two different release functions, then destroy.
C1_Witness ==
    /\ Ended
    /\ Len(Body) = 3
    /\ \A i \in 1..3 : TrackOk(Body[i])
    /\ Body[1].fn # Body[2].fn
    /\ Len(log) = 3

\* The failing track itself.
C2_FailedStep ==
    (Did("track") /\ TrackFailed(Last(hist')))
        => /\ NewCalls = <<ReleaseOf(Last(hist'))>>
           /\ ret' = NULL
           /\ frames' = frames

\* Tracks, some failing at registration, then destroy.
C2_LaterDestroy ==
    (Ended /\ \A i \in 1..Len(Body) : TrackOk(Body[i]) \/ TrackFailed(Body[i]))
        => log = MapRelease(SelectSeq(Body, TrackFailed))
                    \o Reverse(MapRelease(SelectSeq(Body, TrackOk)))

\* C2: a track whose slot registration fails invokes the resource's release
\* function exactly once at once, returns the failure signal and leaves the
\* sequence of slots as it was; a later destroy releases only the resources
\* tracked successfully.
C2_FailedRegistration == [][C2_FailedStep]_vars /\ []C2_LaterDestroy

\* track A succeeds, track B fails at registration, destroy.
C2_Witness ==
    /\ Ended
    /\ Len(Body) = 2
    /\ TrackOk(Body[1])
    /\ TrackFailed(Body[2])
    /\ log = <<ReleaseOf(Body[2]), ReleaseOf(Body[1])>>

\* The successful track itself.
C3_Step ==
    (Did("track") /\ TrackOk(Last(hist')))
        => /\ ret' = Last(hist').res
           /\ Len(frames') = Len(frames) + 1
           /\ Last(frames') = [resource |-> Last(hist').res,
                               resource_destroy |-> Last(hist').fn]
           /\ \A i \in 1..Len(frames) : frames'[i] = frames[i]

\* C3: a successful track returns the handle it was given and appends exactly
\* one slot holding (resource, release); the slots tracked before keep their
\* contents and positions.
C3_TrackAppends == [][C3_Step]_vars

\* A second successful track, behind a slot tracked before.
C3_Witness ==
    /\ Len(hist) = 2
    /\ TrackOk(hist[1])
    /\ TrackOk(hist[2])
    /\ Len(frames) = 2
    /\ ret = hist[2].res

----------------------------------------------------------------------------
\* What a history must leave tracked and must have released, read off the
\* caller's operations alone.

ResetOk(e) == e.op = "reset" /\ e.new # NULL

\* A reset that found its slot and whose constructor failed.
ResetCtorFailed(e) == e.op = "reset" /\ e.ok /\ e.new = NULL

Pair(res, fn) == [res |-> res, fn |-> fn]

Rename(p, old, new) ==
    [j \in 1..Len(p) |-> IF p[j].res = old THEN Pair(new, p[j].fn) ELSE p[j]]

Without(p, res) == SelectSeq(p, LAMBDA x : x.res # res)

Owning(p, res) == SelectSeq(p, LAMBDA x : x.res = res)

\* The (resource, release) pairs history h leaves tracked, oldest first.
RECURSIVE Tracked(_)
Tracked(h) ==
    IF h = <<>> THEN <<>>
    ELSE LET p == Tracked(SubSeq(h, 1, Len(h) - 1))
             e == Last(h)
         IN  IF TrackOk(e) THEN Append(p, Pair(e.res, e.fn))
             ELSE IF ResetOk(e) THEN Rename(p, e.res, e.new)
             ELSE IF e.op = "release_one" THEN Without(p, e.res)
             ELSE IF ResetCtorFailed(e)
                  THEN IF e.pol = "removed"
                       THEN Without(p, e.res)
                       ELSE Rename(p, e.res, NULL)
             ELSE IF e.op = "destroy" THEN <<>>
             ELSE p

\* The release calls history h must have made, in order.
RECURSIVE Expected(_)
Expected(h) ==
    IF h = <<>> THEN <<>>
    ELSE LET pre == SubSeq(h, 1, Len(h) - 1)
             e == Last(h)
             p == Tracked(pre)
             own == Owning(p, e.res)
         IN  Expected(pre) \o
             (IF TrackFailed(e) THEN <<ReleaseOf(e)>>
              ELSE IF e.op \in {"reset", "release_one"} /\ own # <<>>
                   THEN <<Release(own[1].fn, e.res)>>
              ELSE IF e.op = "destroy" THEN Reverse(MapRelease(p))
              ELSE <<>>)

\* Some slot holds r; SlotOf is its position.
Owned(r) == \E i \in 1..Len(frames) : frames[i].resource = r

SlotOf(r) == CHOOSE i \in 1..Len(frames) : frames[i].resource = r

----------------------------------------------------------------------------
\* The successful reset itself.
C4_Step ==
    (Did("reset") /\ ResetOk(Last(hist')) /\ Owned(Last(hist').res))
        => LET e == Last(hist')
               i == SlotOf(e.res)
               old == Release(frames[i].resource_destroy, e.res)
           IN  /\ Releases(NewCalls) = <<old>>
               /\ \E a, b \in 1..Len(NewCalls) :
                     a < b /\ NewCalls[a] = old /\ NewCalls[b] = Store(e.new)
               /\ Len(frames') = Len(frames)
               /\ frames'[i] = [resource |-> e.new,
                                resource_destroy |-> frames[i].resource_destroy]
               /\ \A j \in 1..Len(frames) : j # i => frames'[j] = frames[j]

\* Tracks and successful resets, then destroy.
C4_Teardown ==
    (Ended /\ \A i \in 1..Len(Body) : TrackOk(Body[i]) \/ ResetOk(Body[i]))
        => /\ Releases(log) = Expected(hist)
           /\ \A i \in 1..Len(Body) : ResetOk(Body[i]) =>
                 /\ RelCount(Body[i].res) = 1
                 /\ RelCount(Body[i].new) = 1

\* C4: a successful reset of a tracked resource releases the old resource
\* exactly once, before the new one is stored, and leaves the number of slots
\* and the slot's position unchanged; at destroy the new resource is released
\* where the old one would have been, every other slot at its own position.
C4_ResetInPlace == [][C4_Step]_vars /\ []C4_Teardown

\* track A, track B, reset(A -> A2), destroy: A at reset time, then B, then A2.
C4_Witness ==
    /\ Ended
    /\ Len(Body) = 3
    /\ TrackOk(Body[1])
    /\ TrackOk(Body[2])
    /\ ResetOk(Body[3])
    /\ Body[3].res = Body[1].res
    /\ Releases(log) = <<ReleaseOf(Body[1]), ReleaseOf(Body[2]),
                         Release(Body[1].fn, Body[3].new)>>

\* The destroy of a Lifetime that holds no slot.
C5_Step ==
    (Did("destroy") /\ (frames = <<>> \/ Tracked(hist) = <<>>))
        => /\ NewCalls = <<>>
           /\ ltState' = "destroyed"
           /\ frames' = <<>>

\* C5: destroy on an empty Lifetime (never tracked into, or emptied by
\* release_one) invokes no release function, succeeds, and leaves the Lifetime
\* destroyed.
C5_DestroyEmpty == [][C5_Step]_vars

\* track A, release_one(A), destroy: the only release is the release_one's.
C5_Witness ==
    /\ Ended
    /\ ltState = "destroyed"
    /\ Len(Body) = 2
    /\ TrackOk(Body[1])
    /\ Body[2].op = "release_one"
    /\ Body[2].res = Body[1].res
    /\ log = <<ReleaseOf(Body[1])>>

\* The release_one itself.
C7_Step ==
    (Did("release_one") /\ Last(hist').res # NULL /\ Owned(Last(hist').res))
        => LET e == Last(hist')
               i == SlotOf(e.res)
           IN  /\ NewCalls = <<Release(frames[i].resource_destroy, e.res)>>
               /\ Len(frames') = Len(frames) - 1
               /\ \A j \in 1..(i - 1) : frames'[j] = frames[j]
               /\ \A j \in i..Len(frames') : frames'[j] = frames[j + 1]

\* Operation i of h is a release_one of a resource h tracks at that point.
ReleaseOneTracked(h, i) ==
    /\ h[i].op = "release_one"
    /\ Owning(Tracked(SubSeq(h, 1, i - 1)), h[i].res) # <<>>

\* Tracks and release_one of tracked resources, then destroy.
C7_Teardown ==
    (Ended /\ \A i \in 1..Len(Body) : TrackOk(Body[i]) \/ ReleaseOneTracked(Body, i))
        => /\ log = Expected(hist)
           /\ \A i \in 1..Len(Body) : RelCount(Body[i].res) = 1

\* C7: release_one of a tracked resource invokes its release function exactly
\* once and removes its slot, the other slots keeping contents and order; a
\* later destroy releases only the remaining slots, newest first, and never the
\* removed resource again.
C7_ReleaseOne == [][C7_Step]_vars /\ []C7_Teardown

\* track A, track B, track C, release_one(B), destroy: B, then C, then A.
C7_Witness ==
    /\ Ended
    /\ Len(Body) = 4
    /\ \A i \in 1..3 : TrackOk(Body[i])
    /\ Body[4].op = "release_one"
    /\ Body[4].res = Body[2].res
    /\ log = <<ReleaseOf(Body[2]), ReleaseOf(Body[3]), ReleaseOf(Body[1])>>

\* Every resource handed to track or installed by reset.
Handed ==
    {hist[i].res : i \in {j \in 1..Len(hist) : hist[j].op = "track" /\ hist[j].res # NULL}}
        \cup {hist[i].new : i \in {j \in 1..Len(hist) : ResetOk(hist[j])}}

\* C8: over any sequence of track (succeeding or failing at registration),
\* reset and release_one that ends with destroy, every resource handed to track
\* or installed by reset has its release function invoked exactly once.
C8_ExactlyOnce ==
    Ended => \A r \in Handed : RelCount(r) = 1

\* A failed registration, a reset that installs a resource, a reset whose
\* constructor fails, and the closing destroy.
C8_Witness ==
    /\ Ended
    /\ \E i \in 1..Len(Body) : TrackFailed(Body[i])
    /\ \E i \in 1..Len(Body) : ResetOk(Body[i])
    /\ \E i \in 1..Len(Body) : ResetCtorFailed(Body[i])
    /\ Cardinality(Handed) = 3
    /\ \A r \in Handed : RelCount(r) = 1

\* The reset of a handle no slot holds.
C9_Step ==
    (Did("reset") /\ Last(hist').res # NULL /\ ~Owned(Last(hist').res))
        => /\ ret' = NULL
           /\ Releases(NewCalls) = <<>>
           /\ frames' = frames

\* C9: reset of a resource no slot owns yields the failure signal, invokes no
\* release function and leaves the sequence of slots unchanged.
C9_ResetUntracked == [][C9_Step]_vars

\* A reset of a handle that is not tracked, on a Lifetime that tracks another.
C9_Witness ==
    /\ Len(hist) >= 2
    /\ Last(hist).op = "reset"
    /\ Last(hist).res # NULL
    /\ ~Last(hist).ok
    /\ Len(frames) >= 1
    /\ ret = NULL

----------------------------------------------------------------------------
\* The handle a history of slot operations leaves in the slot created last:
\* the one given to the last replace since, or else the one it was created with.
RECURSIVE Stored(_)
Stored(h) ==
    IF h = <<>> THEN NULL
    ELSE LET e == Last(h) IN
         IF e.op = "create" /\ e.ok THEN e.res
         ELSE IF e.op = "replace" /\ e.ok THEN e.new
         ELSE Stored(SubSeq(h, 1, Len(h) - 1))

\* What owns answered, against the handle the history installed.
C6_Answer ==
    (ltState = "slot" /\ Len(hist) >= 1 /\ Last(hist).op = "owns")
        => (ret = 1 <=> Last(hist).res = Stored(hist))

\* The owns call itself.
C6_Step ==
    Did("owns") => frames' = frames /\ log' = log

\* C6: owns(slot, candidate) is true exactly when candidate is the handle
\* stored in the slot now: the one it was created with, or after a replace the
\* new one and no longer the old one; the call changes nothing in the slot and
\* invokes no release function.
C6_Owns == []C6_Answer /\ [][C6_Step]_vars

\* create(r), replace(slot, r2), owns(slot, r): false for the old handle.
C6_Witness ==
    /\ ltState = "slot"
    /\ Len(hist) = 3
    /\ hist[1].op = "create"
    /\ hist[2].op = "replace"
    /\ hist[3].op = "owns"
    /\ hist[3].res = hist[1].res
    /\ ret = 0

----------------------------------------------------------------------------
\* The load or reload whose constructor fails inside reset.
C10_Step ==
    (call'.fn \in {"game_update", "game_event"} /\ call'.path = "reset" /\ ~call'.ctor)
        => /\ level # NULL
           /\ level' = NULL
           /\ ret' = -1
           /\ ltState' = "live"
           /\ state' = IF call'.fn = "game_event" THEN "QUIT" ELSE state

\* C10: when the constructor passed to reset fails, reset returns the failure
\* signal, neither aborting nor returning the old resource; game.c then sees
\* game->level == NULL and reports failure (-1).
C10_ResetCtorFails == [][C10_Step]_vars

\* A level was loaded, the menu was reopened, and the next load's constructor
\* failed inside reset.
C10_Witness ==
    /\ call.fn = "game_update"
    /\ call.path = "reset"
    /\ ~call.ctor
    /\ state = "LEVEL_PICKER"
    /\ level = NULL
    /\ ret = -1

----------------------------------------------------------------------------
\* The state of the Lifetime's state machine.
Destroyed == \E i \in 1..Len(hist) : hist[i].op = "destroy"

LtStateOf ==
    IF Destroyed THEN "destroyed"
    ELSE IF frames = <<>> THEN "empty"
    ELSE "populated"

\* create yields the empty state.
C11_Created == hist = <<>> => LtStateOf = "empty"

\* track and reset stay in {empty, populated}; destroy leads to destroyed;
\* nothing leaves destroyed, adds a slot to it or runs a release function.
C11_Step ==
    /\ (Did("track") \/ Did("reset")) => LtStateOf' \in {"empty", "populated"}
    /\ Did("destroy") => LtStateOf' = "destroyed" /\ ltState' = "destroyed"
    /\ LtStateOf = "destroyed"
          => /\ LtStateOf' = "destroyed"
             /\ ltState' # "live"
             /\ frames' = frames
             /\ log' = log

\* C11: the Lifetime is created empty; track and reset keep it in {empty,
\* populated}; destroy moves it to destroyed, which is terminal: an operation
\* attempted on a destroyed Lifetime is not carried out (no release function
\* runs, no slot is added).
C11_StateMachine == []C11_Created /\ [][C11_Step]_vars

\* A populated Lifetime was destroyed and a track was attempted on it: the
\* only release is the destroy's, and no slot exists.
C11_Witness ==
    /\ Len(hist) = 3
    /\ TrackOk(hist[1])
    /\ hist[2].op = "destroy"
    /\ hist[3].op = "after_destroy"
    /\ hist[3].pol = "track"
    /\ ltState = "aborted"
    /\ frames = <<>>
    /\ log = <<ReleaseOf(hist[1])>>

----------------------------------------------------------------------------
\* create_game was the last call and create_lt succeeded in it.
Created == call.fn = "create_game" /\ call.ctor

\* The releases of the resources acquired before step k, newest first.  The
\* resource of step j is handle j: create_game is the first to construct.
Unwound(k) == Reverse([j \in 1..(k - 1) |-> Release(GameParts[j], j)])

\* The releases among l of the resources acquired before step k.
Before(l, k) == SelectSeq(l, LAMBDA e : IsRelease(e) /\ e.res < k)

\* C12: in create_game a failure at any acquisition step K (game struct,
\* broadcast, font, level picker, sound samples, camera, console, cursor
\* texture) releases the resources of steps 1..K-1 in reverse order of
\* acquisition, each exactly once, by destroying the partially built Lifetime,
\* and create_game returns NULL; a non-NULL game means every step succeeded.
C12_FailureAtStepK ==
    Created
        => /\ call.step # 0
                => /\ ret = NULL
                   /\ ltState = "destroyed"
                   /\ frames = <<>>
                   /\ Before(log, call.step) = Unwound(call.step)
           /\ ret # NULL => call.step = 0

\* The same for the steps whose result create_game tests: all but the last.
C12_CheckedSteps ==
    (Created /\ call.step \in 1..(Len(GameParts) - 1))
        => /\ ret = NULL
           /\ ltState = "destroyed"
           /\ frames = <<>>
           /\ Before(log, call.step) = Unwound(call.step)

\* The cursor texture could not be loaded, and create_game returned a game.
C12_LastStepFailed ==
    /\ Created
    /\ call.step = Len(GameParts)
    /\ ret # NULL
    /\ state = "LEVEL_PICKER"
    /\ Len(frames) = Len(GameParts) - 1
    /\ Releases(log) = <<>>

----------------------------------------------------------------------------
\* The release of the handle a reset was given.
IsReleaseOf(e, r) == IsRelease(e) /\ e.res = r

\* The reset of a tracked resource: the old resource is released before the
\* constructor is invoked.
C13_Step ==
    (Did("reset") /\ Last(hist').ok)
        => LET e == Last(hist') IN
           \E a, b \in 1..Len(NewCalls) :
              /\ a < b
              /\ IsReleaseOf(NewCalls[a], e.res)
              /\ NewCalls[b] = Construct(e.new)

C13_ConstructFirst ==
    (Did("reset") /\ ResetOk(Last(hist')) /\ Owned(Last(hist').res))
        => LET e == Last(hist')
               old == Release(frames[SlotOf(e.res)].resource_destroy, e.res)
           IN  NewCalls = <<Construct(e.new), old, Store(e.new)>>

----------------------------------------------------------------------------
\* Slot i holds a handle that is not NULL and was not released.
HoldsLive(i) == frames[i].resource # NULL /\ RelCount(frames[i].resource) = 0

\* Some reset's constructor failed and the slot was left without a resource.
LeftEmpty ==
    \E j \in 1..Len(hist) : ResetCtorFailed(hist[j]) /\ hist[j].pol = "empty"

----------------------------------------------------------------------------
\* The release function a history of slot operations gave the slot created
\* last.
RECURSIVE Given(_)
Given(h) ==
    IF h = <<>> THEN NoFn
    ELSE LET e == Last(h) IN
         IF e.op = "create" /\ e.ok THEN e.fn
         ELSE Given(SubSeq(h, 1, Len(h) - 1))

\* The release calls a history of slot operations must have made, in order:
\* one per replace, of the handle replaced out, and one per destroy, of the
\* handle held last, each with the function given at creation.
RECURSIVE SlotExpected(_)
SlotExpected(h) ==
    IF h = <<>> THEN <<>>
    ELSE LET pre == SubSeq(h, 1, Len(h) - 1)
             e == Last(h)
         IN  SlotExpected(pre) \o
             (IF e.ok /\ e.op \in {"replace", "destroy_slot"}
              THEN <<Release(Given(pre), Stored(pre))>>
              ELSE <<>>)

\* The slot holds the handle installed last and the function given at creation,
\* and the releases so far are the expected ones.
C15_Held ==
    /\ ltState = "slot" =>
          frames = <<[resource |-> Stored(hist), resource_destroy |-> Given(hist)]>>
    /\ Releases(log) = SlotExpected(hist)

\* The replace itself: one release, of the old handle, then the store; only
\* the handle changes.
C15_Step ==
    (Did("replace") /\ Last(hist').ok)
        => /\ NewCalls = <<Release(frames[1].resource_destroy, frames[1].resource),
                           Store(Last(hist').new)>>
           /\ frames' = <<[frames[1] EXCEPT !.resource = Last(hist').new]>>

\* C15: replace changes only the handle the slot stores; the release function
\* stays the one given at creation: every replaced-out resource is released
\* with it exactly once when it is replaced, and the resource held last is
\* released with it when the slot is destroyed.
C15_ReplaceKeepsRelease == []C15_Held /\ [][C15_Step]_vars

\* create(r1, fn), two replaces, destroy: r1 and r2 released at their
\* replace, r3 at the destroy, all with fn.
C15_Witness ==
    /\ Len(hist) = 4
    /\ hist[1].op = "create"
    /\ hist[2].op = "replace"
    /\ hist[3].op = "replace"
    /\ hist[4].op = "destroy_slot"
    /\ log = <<Release(hist[1].fn, hist[1].res), Store(hist[2].new),
               Release(hist[1].fn, hist[2].new), Store(hist[3].new),
               Release(hist[1].fn, hist[3].new)>>

----------------------------------------------------------------------------
\* The states in which the game works on game->level.
InLevel == state \in {"RUNNING", "PAUSE", "CONSOLE"}

\* create_game returned a game.
C16_Start ==
    (call.fn = "create_game" /\ ret # NULL) => state = "LEVEL_PICKER" /\ level = NULL

\* The way from the level picker into the level.
C16_Enter ==
    (state = "LEVEL_PICKER" /\ state' = "RUNNING")
        => /\ call'.fn = "game_update"
           /\ call'.path \in {"push", "reset"}
           /\ call'.ctor
           /\ level' # NULL
           /\ ret' = 0

\* C16: whenever the game state is RUNNING, PAUSE or CONSOLE, game->level is
\* not NULL; the game starts in LEVEL_PICKER with level NULL and enters
\* RUNNING from LEVEL_PICKER only with a level that was loaded; this holds
\* after any calls of game_update, game_event and game_send, failed loads and
\* reloads included.
C16_LevelInvariant ==
    [](InLevel => level # NULL) /\ []C16_Start /\ [][C16_Enter]_vars

\* A load failed in the picker, the next one succeeded, and the console was
\* opened over the running level.
C16_Witness ==
    /\ state = "CONSOLE"
    /\ level # NULL
    /\ \E i \in 1..Len(log) : log[i] = Construct(NULL)

----------------------------------------------------------------------------
\* game_over_check: the game state is QUIT.
game_over_check == state = "QUIT"

\* C17, as stated: once the game state is QUIT no call of game_event,
\* game_update, game_input or game_send changes it.
C17_QuitAbsorbing == [][game_over_check => game_over_check']_vars

\* A step out of the QUIT state is a game_send to "menu"; every other call
\* leaves the state QUIT and the level as it is.
C17_Step ==
    game_over_check
        => \/ game_over_check' /\ level' = level
           \/ /\ call'.fn = "game_send"
              /\ call'.type = "menu"
              /\ state' = "LEVEL_PICKER"
              /\ level' = level

\* C17, as the code has it: QUIT is left by no call of game_event,
\* game_update or game_input, nor by a game_send to another target; a
\* game_send to "menu" moves the game from QUIT to LEVEL_PICKER.
C17_QuitUntilMenu == [][C17_Step]_vars

\* The game quit on a reload that failed, and game_input was called after.
C17_Witness ==
    /\ game_over_check
    /\ level = NULL
    /\ call.fn = "game_input"

----------------------------------------------------------------------------
\* The call c is game_event with an event of the given type and key.
Key(c, type, sym) == c.fn = "game_event" /\ c.type = type /\ c.sym = sym

\* The transitions of the game state: from, to, and the call that made it.
Transition(from, to, c) ==
    \/ /\ from = "LEVEL_PICKER" /\ to = "RUNNING"
       /\ c.fn = "game_update" /\ c.path \in {"push", "reset"} /\ c.ctor
    \/ from = "RUNNING" /\ to = "PAUSE" /\ Key(c, "SDL_KEYDOWN", "p")
    \/ from = "PAUSE" /\ to = "RUNNING" /\ Key(c, "SDL_KEYDOWN", "p")
    \/ /\ from = "RUNNING" /\ to = "CONSOLE"
       /\ Key(c, "SDL_KEYUP", "BACKQUOTE") \/ Key(c, "SDL_KEYUP", "c")
    \/ from = "CONSOLE" /\ to = "RUNNING" /\ Key(c, "SDL_KEYDOWN", "ESCAPE")
    \/ /\ from \in {"RUNNING", "PAUSE", "CONSOLE", "LEVEL_PICKER"} /\ to = "QUIT"
       /\ c.fn = "game_event" /\ c.type = "SDL_QUIT"
    \/ /\ from = "RUNNING" /\ to = "QUIT"
       /\ Key(c, "SDL_KEYDOWN", "r") \/ Key(c, "SDL_KEYDOWN", "q")
       /\ ~c.ctor
    \/ to = "LEVEL_PICKER" /\ c.fn = "game_send" /\ c.type = "menu"

\* A change of the state of an existing game is one of the transitions, and
\* game_input makes none.
C18_Step ==
    /\ (state # "NONE" /\ state' # state) => Transition(state, state', call')
    /\ call'.fn = "game_input" => state' = state

\* C18: the game state changes only by LEVEL_PICKER -> RUNNING (game_update
\* with a level that loaded), RUNNING <-> PAUSE (key-down 'p'), RUNNING ->
\* CONSOLE (key-up backquote or 'c'), CONSOLE -> RUNNING (key-down Escape),
\* RUNNING, PAUSE, CONSOLE or LEVEL_PICKER -> QUIT (SDL_QUIT), RUNNING -> QUIT
\* (a reload with 'r' or 'q' that fails) and any state -> LEVEL_PICKER
\* (game_send to "menu"); game_input never changes it.
C18_Transitions == [][C18_Step]_vars

\* The console was closed with Escape: LEVEL_PICKER -> RUNNING -> CONSOLE ->
\* RUNNING.
C18_Witness ==
    /\ state = "RUNNING"
    /\ Key(call, "SDL_KEYDOWN", "ESCAPE")
    /\ level # NULL

----------------------------------------------------------------------------
\* The step just taken was proto_rect_event with an event of this kind.
Got(type, button) == event'.type = type /\ event'.button = button

LeftUp == Got("SDL_MOUSEBUTTONUP", "SDL_BUTTON_LEFT")

LeftDown == Got("SDL_MOUSEBUTTONDOWN", "SDL_BUTTON_LEFT")

IsAddBox(c) == c.call = "boxes_add_box"

\* The boxes_add_box calls among the calls l.
Added(l) == SelectSeq(l, IsAddBox)

\* The rect spanned by the proto rect's begin and end, and its area w * h.
Spanned == rect_from_points(proto_rect.begin, proto_rect.end)

Area == Spanned.w * Spanned.h

\* The release of the left button over an active proto rect, and every other
\* step.
C19_Step ==
    /\ (proto_rect.active /\ LeftUp)
          => /\ Area >= PROTO_AREA_THRESHOLD <=> Added(out') = <<AddBox(Spanned)>>
             /\ Area < PROTO_AREA_THRESHOLD <=> Added(out') = <<>>
             /\ ~proto_rect'.active
    /\ ~(proto_rect.active /\ LeftUp) => Added(out') = <<>>

\* C19: a left mouse-button-up that arrives while the proto rect is active
\* adds the rect spanned by begin and end to the boxes, by exactly one
\* boxes_add_box call, if and only if its area w * h is at least
\* PROTO_AREA_THRESHOLD, and makes the proto rect inactive either way; no
\* other step adds a box.
C19_BoxIffArea == [][C19_Step]_vars

\* A drag whose area is exactly the threshold was released: the box is added.
C19_Witness ==
    /\ ~proto_rect.active
    /\ event.type = "SDL_MOUSEBUTTONUP"
    /\ Area = PROTO_AREA_THRESHOLD
    /\ out = <<AddBox(Spanned)>>

----------------------------------------------------------------------------
\* What each call does to the proto rect, by whether it is active.
C20_Step ==
    /\ (~proto_rect.active /\ LeftDown)
          => proto_rect' = [active |-> TRUE, begin |-> event'.point,
                            end |-> event'.point]
    /\ (~proto_rect.active /\ ~LeftDown)
          => proto_rect' = proto_rect /\ Added(out') = <<>>
    /\ (proto_rect.active /\ ~LeftUp) => proto_rect'.active
    /\ (proto_rect.active /\ LeftUp) => ~proto_rect'.active
    /\ (proto_rect.active /\ event'.type = "SDL_MOUSEMOTION")
          => proto_rect' = [proto_rect EXCEPT !.end = event'.point]
    /\ proto_rect.active => proto_rect'.begin = proto_rect.begin
    /\ (proto_rect.active /\ event'.type = "SDL_MOUSEBUTTONDOWN")
          => proto_rect' = proto_rect
    /\ event'.type = "render"
          => /\ proto_rect' = proto_rect
             /\ out' = IF proto_rect.active THEN <<FillRect(Spanned)>> ELSE <<>>

\* C20: the proto rect is active from a left mouse-button-down received while
\* inactive, which sets begin = end = the mapped click point, until the next
\* left mouse-button-up.  While inactive every other event leaves active,
\* begin and end unchanged and adds no box; while active a mouse motion
\* changes only end, begin is never modified, a further button-down does not
\* restart the drag; proto_rect_render draws only while active.
C20_ActiveLifecycle == [][C20_Step]_vars

\* During a drag the button was pressed again at another point: the drag
\* goes on from where it began.
C20_Witness ==
    /\ proto_rect.active
    /\ event.type = "SDL_MOUSEBUTTONDOWN"
    /\ event.button = "SDL_BUTTON_LEFT"
    /\ event.point # proto_rect.begin
    /\ proto_rect.end # proto_rect.begin

====
